---- MODULE Spec2Model ----
(***************************************************************************)
(* Blog content cleaner (src/app.py): the rule pipeline of                 *)
(* clean_html_content and the "Clean All Blogs" batch with its statistics. *)
(* A text is a sequence of one-character strings; every re.sub of the      *)
(* source is a pattern record interpreted by ReSub the way Python's re      *)
(* module matches it (leftmost match, greedy/lazy quantifiers, scan resumes *)
(* after the match).                                                       *)
(***************************************************************************)
EXTENDS Integers, Sequences, FiniteSets, TLC

VARIABLES
  pc,               \* position of the running handler or call
  options,          \* cleaning_options, the sixteen sidebar flags
  value,            \* the argument text of the running clean_html_content call
  text,             \* its local variable text
  rule,             \* index of the if statement it stands at
  applied,          \* the flags whose if body has run, in order
  trail,            \* the values text has held: the argument, then each body's result
  result,           \* what the call returned
  df,               \* df[text_column], the cells of the selected column
  cleaned_content,  \* df["cleaned_content"]
  total_removed,    \* the statistic total_removed
  avg_reduction,    \* the statistic avg_reduction, a fraction num/den, or NaN (na)
  na_as_text        \* the installed pandas: does astype(str) turn NaN into the text "nan"

callVars == <<value, text, rule, applied, trail, result>>

batchVars == <<df, cleaned_content, total_removed, avg_reduction, na_as_text>>

vars == <<pc, options, callVars, batchVars>>

----------------------------------------------------------------------------
(* Characters *)

UpperCase == <<"A","B","C","D","E","F","G","H","I","J","K","L","M","N","O","P","Q","R","S","T","U","V","W","X","Y","Z">>

LowerCase == <<"a","b","c","d","e","f","g","h","i","j","k","l","m","n","o","p","q","r","s","t","u","v","w","x","y","z">>

Digits == {"0","1","2","3","4","5","6","7","8","9"}

\* re.IGNORECASE compares characters without regard to case
Lower(c) ==
  IF \E k \in DOMAIN UpperCase : UpperCase[k] = c
  THEN LowerCase[CHOOSE k \in DOMAIN UpperCase : UpperCase[k] = c]
  ELSE c

\* \s of a str pattern (the ASCII part)
IsSpace(c) == c \in {" ", "\t", "\n", "\r", "\f"}

\* \w of a str pattern (the ASCII part)
IsWord(c) ==
  \/ \E k \in DOMAIN UpperCase : UpperCase[k] = c \/ LowerCase[k] = c
  \/ c \in Digits
  \/ c = "_"

----------------------------------------------------------------------------
(* Regular-expression matching, positions are 1-based, an end is exclusive *)

\* does the literal lit stand at position i of t (ic: case-insensitively)
LitAt(t, i, lit, ic) ==
  /\ i >= 1
  /\ i + Len(lit) - 1 <= Len(t)
  /\ \A k \in 1..Len(lit) :
       IF ic THEN Lower(t[i + k - 1]) = Lower(lit[k]) ELSE t[i + k - 1] = lit[k]

\* first position >= i where lit stands, 0 when there is none (a lazy .*? before lit)
FindLit(t, i, lit, ic) ==
  LET hits == {j \in i..Len(t) : LitAt(t, j, lit, ic)}
  IN IF hits = {} THEN 0 ELSE CHOOSE j \in hits : \A h \in hits : j <= h

\* position of the '>' that ends [^>]*> started at i, 0 when there is none
FirstGT(t, i) ==
  LET hits == {j \in i..Len(t) : t[j] = ">"}
  IN IF hits = {} THEN 0 ELSE CHOOSE j \in hits : \A h \in hits : j <= h

\* first position >= i whose character is not in the class Cls (Len(t)+1 at the end)
RECURSIVE RunEnd(_, _, _)
RunEnd(t, i, cls) ==
  IF i <= Len(t) /\ t[i] \in cls THEN RunEnd(t, i + 1, cls) ELSE i

SpaceChars == {" ", "\t", "\n", "\r", "\f"}

WordChars == {UpperCase[k] : k \in DOMAIN UpperCase} \cup {LowerCase[k] : k \in DOMAIN LowerCase} \cup Digits \cup {"_"}

Nbsp == <<"&","n","b","s","p",";">>

\* end of the longest run of (?:&nbsp;|\s) items started at i
RECURSIVE BlankEnd(_, _)
BlankEnd(t, i) ==
  IF i <= Len(t) /\ IsSpace(t[i]) THEN BlankEnd(t, i + 1)
  ELSE IF LitAt(t, i, Nbsp, TRUE) THEN BlankEnd(t, i + Len(Nbsp))
  ELSE i

NoMatch == [end |-> 0, out |-> <<>>]

\* <open[^>]*>.*?close  or  <open[^>]*>(.*?)close  (attrs FALSE: open.*?close)
MatchPair(p, t, i) ==
  IF ~LitAt(t, i, p.open, p.ic) THEN NoMatch
  ELSE LET a == i + Len(p.open)
           g == IF p.attrs THEN FirstGT(t, a) ELSE a - 1
       IN IF p.attrs /\ g = 0 THEN NoMatch
          ELSE LET c == FindLit(t, g + 1, p.close, p.ic)
               IN IF c = 0 THEN NoMatch
                  ELSE [end |-> c + Len(p.close),
                        out |-> IF p.keep THEN SubSeq(t, g + 1, c - 1) ELSE p.repl]

\* <open[^>]*/?>  and  <open[^>]*>
MatchTag(p, t, i) ==
  IF ~LitAt(t, i, p.open, p.ic) THEN NoMatch
  ELSE LET g == FirstGT(t, i + Len(p.open))
       IN IF g = 0 THEN NoMatch ELSE [end |-> g + 1, out |-> p.repl]

\* a literal
MatchLit(p, t, i) ==
  IF LitAt(t, i, p.open, p.ic) THEN [end |-> i + Len(p.open), out |-> p.repl] ELSE NoMatch

\* <p[^>]*>\s*(?:&nbsp;|\s)*\s*</p>
MatchEmptyP(p, t, i) ==
  IF ~LitAt(t, i, p.open, p.ic) THEN NoMatch
  ELSE LET g == FirstGT(t, i + Len(p.open))
       IN IF g = 0 THEN NoMatch
          ELSE LET k == BlankEnd(t, g + 1)
               IN IF LitAt(t, k, p.close, p.ic)
                  THEN [end |-> k + Len(p.close), out |-> p.repl]
                  ELSE NoMatch

\* <(\w+)[^>]*>  replaced by  <\1>
MatchAttr(p, t, i) ==
  IF ~(t[i] = "<" /\ i + 1 <= Len(t) /\ IsWord(t[i + 1])) THEN NoMatch
  ELSE LET w == RunEnd(t, i + 1, WordChars)
           g == FirstGT(t, w)
       IN IF g = 0 THEN NoMatch
          ELSE [end |-> g + 1, out |-> <<"<">> \o SubSeq(t, i + 1, w - 1) \o <<">">>]

\* \n\s*\n\s*\n+ : from a newline to the last newline of its whitespace run,
\* when the run holds three newlines or more
MatchBlankLines(p, t, i) ==
  IF t[i] # "\n" THEN NoMatch
  ELSE LET r == RunEnd(t, i, SpaceChars)
           nl == {j \in i..(r - 1) : t[j] = "\n"}
       IN IF Cardinality(nl) < 3 THEN NoMatch
          ELSE [end |-> (CHOOSE j \in nl : \A h \in nl : h <= j) + 1, out |-> p.repl]

\* [ \t]+
MatchHSpace(p, t, i) ==
  IF t[i] \notin {" ", "\t"} THEN NoMatch
  ELSE [end |-> RunEnd(t, i, {" ", "\t"}), out |-> p.repl]

\*  +\n
MatchSpaceNl(p, t, i) ==
  IF t[i] # " " THEN NoMatch
  ELSE LET e == RunEnd(t, i, {" "})
       IN IF e <= Len(t) /\ t[e] = "\n" THEN [end |-> e + 1, out |-> p.repl] ELSE NoMatch

MatchAt(p, t, i) ==
  CASE p.kind = "pair" -> MatchPair(p, t, i)
    [] p.kind = "tag" -> MatchTag(p, t, i)
    [] p.kind = "lit" -> MatchLit(p, t, i)
    [] p.kind = "emptyp" -> MatchEmptyP(p, t, i)
    [] p.kind = "attr" -> MatchAttr(p, t, i)
    [] p.kind = "blank" -> MatchBlankLines(p, t, i)
    [] p.kind = "hspace" -> MatchHSpace(p, t, i)
    [] p.kind = "spnl" -> MatchSpaceNl(p, t, i)

\* the scan of re.sub from position i: a match is replaced and skipped, any
\* other character is copied
RECURSIVE Scan(_, _, _)
Scan(p, t, i) ==
  IF i > Len(t) THEN <<>>
  ELSE LET m == MatchAt(p, t, i)
       IN IF m.end = 0 THEN <<t[i]>> \o Scan(p, t, i + 1)
          ELSE m.out \o Scan(p, t, m.end)

\* re.sub(pattern, repl, t): every non-overlapping match, leftmost first
ReSub(p, t) == Scan(p, t, 1)

\* str.strip()
RECURSIVE LStrip(_)
LStrip(t) == IF t # <<>> /\ IsSpace(Head(t)) THEN LStrip(Tail(t)) ELSE t

RECURSIVE RStrip(_)
RStrip(t) == IF t # <<>> /\ IsSpace(t[Len(t)]) THEN RStrip(SubSeq(t, 1, Len(t) - 1)) ELSE t

Strip(t) == RStrip(LStrip(t))

----------------------------------------------------------------------------
(* The patterns of clean_html_content *)

Pat(kind, open, attrs, close, ic, keep, repl) ==
  [kind |-> kind, open |-> open, attrs |-> attrs, close |-> close, ic |-> ic, keep |-> keep, repl |-> repl]

Block(name) == Pat("pair", <<"<">> \o name, TRUE, <<"<","/">> \o name \o <<">">>, TRUE, FALSE, <<>>)

Unwrap(name) == Pat("pair", <<"<">> \o name, TRUE, <<"<","/">> \o name \o <<">">>, TRUE, TRUE, <<>>)

re_script == Block(<<"s","c","r","i","p","t">>)
re_style == Block(<<"s","t","y","l","e">>)
re_pre == Block(<<"p","r","e">>)
re_code == Block(<<"c","o","d","e">>)
re_comment == Pat("pair", <<"<","!","-","-">>, FALSE, <<"-","-",">">>, FALSE, FALSE, <<>>)
re_h2 == Block(<<"h","2">>)
re_img == Pat("tag", <<"<","i","m","g">>, TRUE, <<>>, TRUE, FALSE, <<>>)
re_br_xhtml == Pat("tag", <<"<","b","r">>, TRUE, <<>>, TRUE, FALSE, <<"<","b","r"," ","/",">">>)
re_br == Pat("tag", <<"<","b","r">>, TRUE, <<>>, TRUE, FALSE, <<" ">>)
re_a == Unwrap(<<"a">>)
re_strong == Unwrap(<<"s","t","r","o","n","g">>)
re_em == Unwrap(<<"e","m">>)
re_i == Unwrap(<<"i">>)
re_span_strip == Pat("tag", <<"<","s","p","a","n">>, TRUE, <<>>, TRUE, FALSE, <<>>)
re_span == Unwrap(<<"s","p","a","n">>)
re_p_open == Pat("tag", <<"<","p">>, TRUE, <<>>, TRUE, FALSE, <<>>)
re_p_close == Pat("lit", <<"<","/","p",">">>, FALSE, <<>>, TRUE, FALSE, <<" ">>)
re_empty_p == Pat("emptyp", <<"<","p">>, TRUE, <<"<","/","p",">">>, TRUE, FALSE, <<>>)
re_nbsp == Pat("lit", Nbsp, FALSE, <<>>, TRUE, FALSE, <<" ">>)
re_attr == Pat("attr", <<"<">>, TRUE, <<>>, FALSE, TRUE, <<>>)
re_blank_lines == Pat("blank", <<"\n">>, FALSE, <<>>, FALSE, FALSE, <<"\n","\n">>)
re_hspace == Pat("hspace", <<" ">>, FALSE, <<>>, FALSE, FALSE, <<" ">>)
re_space_nl == Pat("spnl", <<" ">>, FALSE, <<>>, FALSE, FALSE, <<"\n">>)

----------------------------------------------------------------------------
(* clean_html_content *)

\* mutant of Rules: attribute stripping tested before the span unwrap
Rules_Swapped == <<"remove_script", "remove_style", "remove_code", "remove_comments", "remove_h2", "remove_images", "remove_br", "remove_links", "remove_strong", "remove_em", "remove_attributes", "remove_all_p", "remove_empty_p", "remove_nbsp", "remove_spans", "normalize_whitespace">>

\* the option flags in the order the function tests them
Rules == <<"remove_script", "remove_style", "remove_code", "remove_comments", "remove_h2", "remove_images", "remove_br", "remove_links", "remove_strong", "remove_em", "remove_spans", "remove_all_p", "remove_empty_p", "remove_nbsp", "remove_attributes", "normalize_whitespace">>

Flags == {Rules[k] : k \in DOMAIN Rules}

\* mutant of Guard: the empty-paragraph test without "and not options['remove_all_p']"
Guard_NoExclusion(k, o) == o[Rules[k]]

\* the condition of the k-th if statement
Guard(k, o) ==
  IF Rules[k] = "remove_empty_p" THEN o.remove_empty_p /\ ~o.remove_all_p ELSE o[Rules[k]]

\* mutant of Normalize: the " +\n" substitution done before the "[ \t]+" one
Normalize_Reordered(t) == Strip(ReSub(re_hspace, ReSub(re_space_nl, ReSub(re_blank_lines, t))))

\* the four statements under "if options['normalize_whitespace']"
Normalize(t) == Strip(ReSub(re_space_nl, ReSub(re_hspace, ReSub(re_blank_lines, t))))

\* the body of the k-th if statement
Apply(k, t) ==
  CASE Rules[k] = "remove_script" -> ReSub(re_script, t)
    [] Rules[k] = "remove_style" -> ReSub(re_style, t)
    [] Rules[k] = "remove_code" -> ReSub(re_code, ReSub(re_pre, t))
    [] Rules[k] = "remove_comments" -> ReSub(re_comment, t)
    [] Rules[k] = "remove_h2" -> ReSub(re_h2, t)
    [] Rules[k] = "remove_images" -> ReSub(re_img, t)
    [] Rules[k] = "remove_br" -> ReSub(re_br, t)
    [] Rules[k] = "remove_links" -> ReSub(re_a, t)
    [] Rules[k] = "remove_strong" -> ReSub(re_strong, t)
    [] Rules[k] = "remove_em" -> ReSub(re_i, ReSub(re_em, t))
    [] Rules[k] = "remove_spans" -> ReSub(re_span, t)
    [] Rules[k] = "remove_all_p" -> ReSub(re_p_close, ReSub(re_p_open, t))
    [] Rules[k] = "remove_empty_p" -> ReSub(re_empty_p, t)
    [] Rules[k] = "remove_nbsp" -> ReSub(re_nbsp, t)
    [] Rules[k] = "remove_attributes" -> ReSub(re_attr, t)
    [] Rules[k] = "normalize_whitespace" -> Normalize(t)

\* a cell of the column: NaN, a number (with its str() form) or a str
NaN == [kind |-> "nan", s |-> <<"n","a","n">>]

Num(s) == [kind |-> "num", s |-> s]

Str(s) == [kind |-> "str", s |-> s]

\* mutant of IsText: the isinstance test left out
IsText_NoTypeCheck(v) == v.kind # "nan"

\* not (pd.isna(text) or not isinstance(text, str))
IsText(v) == v.kind # "nan" /\ v.kind = "str"

\* the if statements from k on, applied to t
RECURSIVE Pipeline(_, _, _)
Pipeline(t, o, k) ==
  IF k > Len(Rules) THEN t
  ELSE Pipeline(IF Guard(k, o) THEN Apply(k, t) ELSE t, o, k + 1)

clean_html_content(v, o) == IF ~IsText(v) THEN <<>> ELSE Pipeline(v.s, o, 1)

----------------------------------------------------------------------------
(* Option configurations (the sidebar checkboxes) *)

AllOff == [f \in Flags |-> FALSE]

AllOn == [f \in Flags |-> TRUE]

\* the checkboxes' value= defaults
Defaults == [f \in Flags |-> f # "remove_all_p"]

Only(f) == [AllOff EXCEPT ![f] = TRUE]

Toggle(o, f) == [o EXCEPT ![f] = ~o[f]]

\* the configurations explored: nothing, everything, the defaults, each flag alone,
\* both paragraph flags alone, and the defaults with one of three flags flipped
OptionConfigs ==
  {AllOff, AllOn, Defaults}
    \cup {Only(f) : f \in Flags}
    \cup {[AllOff EXCEPT !["remove_all_p"] = TRUE, !["remove_empty_p"] = TRUE]}
    \cup {Toggle(Defaults, f) : f \in {"remove_all_p", "remove_attributes", "normalize_whitespace"}}

----------------------------------------------------------------------------
(* Input texts: concatenations of markup fragments *)

RECURSIVE Flatten(_)
Flatten(ss) == IF ss = <<>> THEN <<>> ELSE Head(ss) \o Flatten(Tail(ss))

SeqsUpTo(S, n) == UNION {[1..k -> S] : k \in 0..n}

MaxFrags == 2

SpanClassX == <<"<","s","p","a","n"," ","c","l","a","s","s","=","\"","x","\"",">">>

SpanBare == <<"<","s","p","a","n",">">>

SpanClose == <<"<","/","s","p","a","n",">">>

StrongClose == <<"<","/","s","t","r","o","n","g",">">>

ScriptOpen == <<"<","s","c","r","i","p","t",">">>

ScriptClose == <<"<","/","s","c","r","i","p","t",">">>

Fragments ==
  { SpanClassX,
    SpanBare \o <<"x">> \o SpanClose \o SpanClose,
    StrongClose,
    ScriptOpen,
    ScriptClose,
    <<"<","P",">">>,
    <<"<","/","p",">">>,
    Nbsp,
    <<"<","b","r",">">>,
    <<" "," ">>,
    <<"\n">>,
    <<"x">> }

SanTexts == {Flatten(fs) : fs \in SeqsUpTo(Fragments, MaxFrags)}

SanValues == {NaN, Num(<<"4","2">>)} \cup {Str(t) : t \in SanTexts}

----------------------------------------------------------------------------
(* One call of clean_html_content, statement by statement *)

\* mutant of Result: the strip() done outside the normalize_whitespace test
Result_Stripped(t) == Strip(t)

\* return text
Result(t) == t

SanInit ==
  /\ pc = "call"
  /\ options \in OptionConfigs
  /\ value \in SanValues
  /\ text = <<>>
  /\ rule = 0
  /\ applied = <<>>
  /\ trail = <<>>
  /\ result = <<>>
  /\ df = <<>>
  /\ cleaned_content = <<>>
  /\ total_removed = 0
  /\ avg_reduction = [na |-> TRUE, num |-> 0, den |-> 1]
  /\ na_as_text = TRUE

\* lines 54-55: the value is NaN or no str
ReturnEmpty ==
  /\ pc = "call"
  /\ ~IsText(value)
  /\ pc' = "returned"
  /\ result' = <<>>
  /\ UNCHANGED <<options, value, text, rule, applied, trail, batchVars>>

\* line 57 on: the value is a str
Enter ==
  /\ pc = "call"
  /\ IsText(value)
  /\ pc' = "rules"
  /\ text' = value.s
  /\ rule' = 1
  /\ trail' = <<value.s>>
  /\ UNCHANGED <<options, value, applied, result, batchVars>>

\* an if statement whose condition holds
RuleApplied ==
  /\ pc = "rules"
  /\ rule <= Len(Rules)
  /\ Guard(rule, options)
  /\ text' = Apply(rule, text)
  /\ applied' = Append(applied, Rules[rule])
  /\ trail' = Append(trail, text')
  /\ rule' = rule + 1
  /\ UNCHANGED <<pc, options, value, result, batchVars>>

\* an if statement whose condition fails
RuleSkipped ==
  /\ pc = "rules"
  /\ rule <= Len(Rules)
  /\ ~Guard(rule, options)
  /\ rule' = rule + 1
  /\ UNCHANGED <<pc, options, value, text, applied, trail, result, batchVars>>

\* line 128
Return ==
  /\ pc = "rules"
  /\ rule > Len(Rules)
  /\ pc' = "returned"
  /\ result' = Result(text)
  /\ UNCHANGED <<options, value, text, rule, applied, trail, batchVars>>

SanNext == ReturnEmpty \/ Enter \/ RuleApplied \/ RuleSkipped \/ Return

SpecSan == SanInit /\ [][SanNext]_vars

\* the statement-by-statement call and the function agree
SanAgrees == pc = "returned" => result = clean_html_content(value, options)

----------------------------------------------------------------------------
(* Properties of one call *)

Range(q) == {q[i] : i \in DOMAIN q}

\* sub occurs in t
Contains(t, sub) == \E i \in 0..(Len(t) - Len(sub)) : SubSeq(t, i + 1, i + Len(sub)) = sub

\* the body run for flag f
Body(f, t) == Apply(CHOOSE k \in DOMAIN Rules : Rules[k] = f, t)

\* C1: a value that is NaN or not a str returns the empty string, for every
\* options configuration, and no rule is applied to it
C1_NullReturnsEmpty ==
  (pc = "returned" /\ value.kind # "str") => (result = <<>> /\ applied = <<>> /\ trail = <<>>)

C1_Witness == pc = "returned" /\ value.kind = "num" /\ options = AllOn /\ result = <<>>

\* C3: with remove_all_p and remove_empty_p both set the call returns what it
\* returns with remove_all_p set and remove_empty_p clear, and the
\* empty-paragraph rule is not applied
C3_MutualExclusion ==
  (pc = "returned" /\ value.kind = "str" /\ options.remove_all_p /\ options.remove_empty_p) =>
    /\ result = clean_html_content(value, [options EXCEPT !["remove_empty_p"] = FALSE])
    /\ "remove_empty_p" \notin Range(applied)

C3_Witness ==
  /\ pc = "returned"
  /\ options.remove_all_p /\ options.remove_empty_p /\ ~options.normalize_whitespace
  /\ value.s = <<"<","P",">","<","/","p",">">>
  /\ result = <<" ">>

\* the registry order of the rules: script, style, code/pre, comments, h2, images,
\* br, anchors, strong, em/i, span, the paragraph rule (all-p, else empty-p), nbsp,
\* attribute stripping, whitespace normalization
CanonicalOrder == <<"remove_script", "remove_style", "remove_code", "remove_comments", "remove_h2", "remove_images", "remove_br", "remove_links", "remove_strong", "remove_em", "remove_spans", "remove_all_p", "remove_empty_p", "remove_nbsp", "remove_attributes", "normalize_whitespace">>

\* a rule's effective enablement
Effective(o, f) == IF f = "remove_empty_p" THEN o.remove_empty_p /\ ~o.remove_all_p ELSE o[f]

EnabledInOrder(o) == LET On(f) == Effective(o, f) IN SelectSeq(CanonicalOrder, On)

\* C4: the rules applied by a call on a str are exactly the enabled ones, each
\* once, in the registry order, and each is given the text the previous one made
C4_OncePerRuleInOrder ==
  (pc = "returned" /\ value.kind = "str") =>
    /\ applied = EnabledInOrder(options)
    /\ Len(trail) = Len(applied) + 1
    /\ trail[1] = value.s
    /\ \A j \in DOMAIN applied : trail[j + 1] = Body(applied[j], trail[j])
    /\ result = trail[Len(trail)]

\* all rules on, nested spans: one pass of the span rule leaves a span pair behind
C4_Witness ==
  /\ pc = "returned"
  /\ options = Only("remove_spans")
  /\ value.s = SpanClassX \o SpanBare \o <<"x">> \o SpanClose \o SpanClose
  /\ applied = <<"remove_spans">>
  /\ result = SpanBare \o <<"x">> \o SpanClose
  /\ Body("remove_spans", result) # result

\* C9: with normalize_whitespace clear the call returns the text of the last
\* applied rule untrimmed, and with every flag clear it returns its argument
C9_NoTrimWithoutNormalize ==
  (pc = "returned" /\ value.kind = "str" /\ ~options.normalize_whitespace) =>
    /\ "normalize_whitespace" \notin Range(applied)
    /\ result = trail[Len(trail)]
    /\ (options = AllOff => result = value.s)

C9_Witness ==
  /\ pc = "returned"
  /\ options = AllOff
  /\ value.s = <<" ", " ", "\n">>
  /\ result = value.s

\* the unpaired tags looked at: an opening tag with attributes, a closing tag, a block opener
LoneTags == {SpanClassX, StrongClose, ScriptOpen}

\* no markup character
Plain(t) == \A i \in DOMAIN t : t[i] \notin {"<", ">", "&"}

\* tag is the only markup of t
Alone(t, tag) ==
  \E i \in 0..(Len(t) - Len(tag)) :
    /\ SubSeq(t, i + 1, i + Len(tag)) = tag
    /\ Plain(SubSeq(t, 1, i))
    /\ Plain(SubSeq(t, i + Len(tag) + 1, Len(t)))

\* C7 as claimed: whatever the options, a tag without a partner is in the output unchanged
C7_LoneTagUnchanged ==
  (pc = "returned" /\ value.kind = "str") =>
    \A tag \in LoneTags : Alone(value.s, tag) => Contains(result, tag)

\* C7 as amended: the call has no failing position; a tag without a partner is in
\* the output unchanged when remove_attributes, remove_all_p, remove_nbsp and
\* normalize_whitespace are clear; remove_attributes cuts <span class="x"> to <span>
C7_LoneTagUnchangedByPairRules ==
  /\ pc \in {"call", "rules", "returned"}
  /\ (pc = "returned" /\ value.kind = "str") =>
       \A tag \in LoneTags : Alone(value.s, tag) =>
         /\ (~options.remove_attributes /\ ~options.remove_all_p /\ ~options.remove_nbsp /\ ~options.normalize_whitespace)
              => Contains(result, tag)
         /\ (options.remove_attributes /\ tag = SpanClassX)
              => (Contains(result, SpanBare) /\ ~Contains(result, tag))

C7_Witness ==
  /\ pc = "returned"
  /\ options = Only("remove_spans")
  /\ value.s = <<"x">> \o SpanClassX
  /\ applied = <<"remove_spans">>
  /\ result = value.s

----------------------------------------------------------------------------
(* The "Clean All Blogs" batch and its statistics *)

MaxRows == 3

\* the texts of a text column; read_csv reads an empty field as NaN, never as ""
BatchTexts ==
  { <<"x">>,
    <<" ","x"," ">>,
    <<"<","b","r",">">>,
    <<"<","p",">"," ","<","/","p",">">>,
    <<"<","b",">","H","i","<","/","b",">","<","!","-","-","c","-","-",">">> }

\* a column is read as text (str cells, NaN for an empty field) or as float64
Columns ==
  SeqsUpTo({NaN} \cup {Str(t) : t \in BatchTexts}, MaxRows)
    \cup SeqsUpTo({NaN, Num(<<"4",".","5">>)}, MaxRows)

BatchOptions == {AllOff, Defaults, AllOn, Only("normalize_whitespace")}

\* mutant of SeriesApply: the NaN cells dropped before the apply
SeriesApply_DropNa(col, o) ==
  LET Kept(v) == v.kind # "nan"
      kept == SelectSeq(col, Kept)
  IN [i \in DOMAIN kept |-> clean_html_content(kept[i], o)]

\* df[text_column].apply(lambda x: clean_html_content(x, cleaning_options))
SeriesApply(col, o) == [i \in DOMAIN col |-> clean_html_content(col[i], o)]

\* a length that may be missing
Known(n) == [na |-> FALSE, n |-> n]

Missing == [na |-> TRUE, n |-> 0]

\* df[text_column].astype(str).str.len(), cell by cell: NaN becomes the text "nan"
\* before pandas 3 and stays missing from pandas 3 on
OriginalLength(v, asText) ==
  IF v.kind = "nan" /\ ~asText THEN Missing ELSE Known(Len(v.s))

\* original_lengths - cleaned_lengths
Removed(o, c) == IF o.na THEN Missing ELSE Known(o.n - c)

RECURSIVE GCD(_, _)
GCD(a, b) == IF b = 0 THEN a ELSE GCD(b, a % b)

\* a fraction in lowest terms
Frac(n, d) == LET g == GCD(n, d) IN [na |-> FALSE, num |-> n \div g, den |-> d \div g]

FracNaN == [na |-> TRUE, num |-> 0, den |-> 1]

FracAdd(a, b) == Frac(a.num * b.den + b.num * a.den, a.den * b.den)

\* (original_lengths - cleaned_lengths) / original_lengths * 100 for one row;
\* a missing length or 0/0 gives NaN
Reduction(o, c) ==
  IF o.na \/ o.n = 0 THEN FracNaN ELSE Frac((o.n - c) * 100, o.n)

\* Series.sum(): missing values are skipped
RECURSIVE SumSkipNa(_)
SumSkipNa(q) ==
  IF q = <<>> THEN 0
  ELSE (IF Head(q).na THEN 0 ELSE Head(q).n) + SumSkipNa(Tail(q))

RECURSIVE FracSumSkipNa(_)
FracSumSkipNa(q) ==
  IF q = <<>> THEN Frac(0, 1)
  ELSE IF Head(q).na THEN FracSumSkipNa(Tail(q))
  ELSE FracAdd(Head(q), FracSumSkipNa(Tail(q)))

\* Series.mean(): missing values are skipped, NaN when nothing is left
(* exact fractions stand for the floats *)
MeanSkipNa(q) ==
  LET NotNa(x) == ~x.na
      n == Len(SelectSeq(q, NotNa))
      total == FracSumSkipNa(q)
  IN IF n = 0 THEN FracNaN ELSE Frac(total.num, total.den * n)

Init ==
  /\ pc = "uploaded"
  /\ options \in BatchOptions
  /\ df \in Columns
  /\ na_as_text \in BOOLEAN
  /\ cleaned_content = <<>>
  /\ total_removed = 0
  /\ avg_reduction = FracNaN
  /\ value = NaN
  /\ text = <<>>
  /\ rule = 0
  /\ applied = <<>>
  /\ trail = <<>>
  /\ result = <<>>

\* lines 150-153: the first cell is shown
ShowPreview ==
  /\ pc = "uploaded"
  /\ Len(df) > 0
  /\ pc' = "ready"
  /\ UNCHANGED <<options, callVars, batchVars>>

\* lines 152, 233-235: iloc[0] of a column without rows raises, the script ends
\* in its except branch and the button is never drawn
PreviewFails ==
  /\ pc = "uploaded"
  /\ Len(df) = 0
  /\ pc' = "error"
  /\ UNCHANGED <<options, callVars, batchVars>>

\* lines 156-187: the button's handler
CleanAllBlogs ==
  /\ pc = "ready"
  /\ LET cleaned == SeriesApply(df, options)
         original_lengths == [i \in DOMAIN df |-> OriginalLength(df[i], na_as_text)]
         cleaned_lengths == [i \in DOMAIN cleaned |-> Len(cleaned[i])]
     IN /\ cleaned_content' = cleaned
        /\ total_removed' = SumSkipNa([i \in DOMAIN df |-> Removed(original_lengths[i], cleaned_lengths[i])])
        /\ avg_reduction' = MeanSkipNa([i \in DOMAIN df |-> Reduction(original_lengths[i], cleaned_lengths[i])])
  /\ pc' = "cleaned"
  /\ UNCHANGED <<options, callVars, df, na_as_text>>

Next == ShowPreview \/ PreviewFails \/ CleanAllBlogs

Spec == Init /\ [][Next]_vars

----------------------------------------------------------------------------
(* Properties of the batch *)

\* C2: the cleaned column has one value per row, in row order: the i-th is the
\* sanitized i-th cell, the empty string for a NaN cell
C2_OnePerRowInOrder ==
  pc = "cleaned" =>
    /\ Len(cleaned_content) = Len(df)
    /\ \A i \in DOMAIN df :
         /\ cleaned_content[i] = clean_html_content(df[i], options)
         /\ (df[i].kind = "nan" => cleaned_content[i] = <<>>)

\* three rows, the second one null
C2_Witness ==
  /\ pc = "cleaned"
  /\ Len(df) = 3
  /\ df[1].kind = "str" /\ df[2].kind = "nan" /\ df[3].kind = "str"
  /\ cleaned_content[1] # <<>> /\ cleaned_content[2] = <<>> /\ cleaned_content[3] # <<>>

\* a column without rows never reaches the batch: the preview raises first
EmptyColumnNeverCleaned == Len(df) = 0 => pc \in {"uploaded", "error"}

\* originalLength as the specification defines it: the cell as text, "" for a null cell
SpecOriginalLength(v) == IF v.kind = "nan" THEN 0 ELSE Len(v.s)

RECURSIVE SumInts(_)
SumInts(q) == IF q = <<>> THEN 0 ELSE Head(q) + SumInts(Tail(q))

\* C6: total_removed is the sum over the rows of originalLength - cleanedLength,
\* a null cell counting as the empty string, so a null row adds 0
C6_TotalCountsNullAsEmpty ==
  pc = "cleaned" =>
    total_removed = SumInts([i \in DOMAIN df |-> SpecOriginalLength(df[i]) - Len(cleaned_content[i])])

\* the mean of the reductions of the rows whose originalLength is not 0, 0 without such a row
SpecAverage ==
  LET NonZero(i) == SpecOriginalLength(df[i]) # 0
      rows == SelectSeq([i \in DOMAIN df |-> i], NonZero)
      terms == [k \in DOMAIN rows |->
                  Frac((SpecOriginalLength(df[rows[k]]) - Len(cleaned_content[rows[k]])) * 100,
                       SpecOriginalLength(df[rows[k]]))]
  IN IF rows = <<>> THEN Frac(0, 1) ELSE MeanSkipNa(terms)

\* C5: avg_reduction is the mean of the reductions over the rows whose
\* originalLength is not 0, and 0 when every row has originalLength 0
C5_AverageSkipsZeroLength == pc = "cleaned" => avg_reduction = SpecAverage

\* every row's removed count and the total are non-negative
TotalNonNegative ==
  pc = "cleaned" =>
    /\ total_removed >= 0
    /\ \A i \in DOMAIN df :
         LET o == OriginalLength(df[i], na_as_text) IN o.na \/ o.n >= Len(cleaned_content[i])

----------------------------------------------------------------------------
(* Whitespace normalization applied to its own output *)

MaxLen == 6

NormChars == {" ", "\t", "\n", "\r", "a"}

NormTexts == SeqsUpTo(NormChars, MaxLen)

NormInit ==
  /\ pc = "raw"
  /\ options = Only("normalize_whitespace")
  /\ value \in {Str(t) : t \in NormTexts}
  /\ text = value.s
  /\ trail = <<value.s>>
  /\ rule = 0
  /\ applied = <<>>
  /\ result = <<>>
  /\ df = <<>>
  /\ cleaned_content = <<>>
  /\ total_removed = 0
  /\ avg_reduction = FracNaN
  /\ na_as_text = TRUE

\* lines 122-126 on the raw text
NormalizeOnce ==
  /\ pc = "raw"
  /\ text' = Normalize(text)
  /\ trail' = Append(trail, text')
  /\ pc' = "normalized"
  /\ UNCHANGED <<options, value, rule, applied, result, batchVars>>

\* lines 122-126 on their own output
NormalizeAgain ==
  /\ pc = "normalized"
  /\ text' = Normalize(text)
  /\ trail' = Append(trail, text')
  /\ pc' = "renormalized"
  /\ UNCHANGED <<options, value, rule, applied, result, batchVars>>

NormNext == NormalizeOnce \/ NormalizeAgain

SpecNorm == NormInit /\ [][NormNext]_vars

\* C8: whitespace normalization is idempotent, a second pass changes nothing
C8_NormalizeIdempotent == pc = "renormalized" => trail[3] = trail[2]

\* a text with a blank-line run, a tab before a newline and outer blanks
C8_Witness ==
  /\ pc = "renormalized"
  /\ trail[1] = <<" ", "a", "\t", "\n", "\n", "\n">>
  /\ trail[2] = <<"a">>
  /\ trail[3] = trail[2]

C8_WitnessBlankLines ==
  /\ pc = "renormalized"
  /\ trail[1] = <<"a", "\n", " ", "\n", "\n", "a">>
  /\ trail[2] = <<"a", "\n", "\n", "a">>

----------------------------------------------------------------------------
(* Calls on texts built from one construct per rule *)

MaxParts == 2

\* a construct for each rule: script, style, pre, code, comment, h2, img, br, a,
\* strong, em, i, a paragraph holding only &nbsp;, and blank lines
Constructs ==
  { <<"<","s","c","r","i","p","t",">","s","<","/","s","c","r","i","p","t",">">>,
    <<"<","s","t","y","l","e",">","s","<","/","s","t","y","l","e",">">>,
    <<"<","p","r","e",">","c","<","/","p","r","e",">">>,
    <<"<","c","o","d","e",">","c","<","/","c","o","d","e",">">>,
    <<"<","!","-","-","c","-","-",">">>,
    <<"<","h","2",">","T","<","/","h","2",">">>,
    <<"<","i","m","g"," ","s","r","c","=","\"","x","\"","/",">">>,
    <<"<","b","r","/",">">>,
    <<"<","a"," ","h","r","e","f","=","\"","u","\"",">","t","<","/","a",">">>,
    <<"<","s","t","r","o","n","g",">","b","<","/","s","t","r","o","n","g",">">>,
    <<"<","e","m",">","e","<","/","e","m",">">>,
    <<"<","i",">","i","<","/","i",">">>,
    <<"<","p"," ","i","d","=","\"","p","\"",">","&","n","b","s","p",";","<","/","p",">">>,
    <<"\n","\n","\n"," ">> }

LenTexts == {Flatten(fs) : fs \in SeqsUpTo(Constructs, MaxParts)}

LenOptions == {AllOff, AllOn, Defaults} \cup {Only(f) : f \in Flags}

LenInit ==
  /\ pc = "call"
  /\ options \in LenOptions
  /\ value \in {NaN} \cup {Str(t) : t \in LenTexts}
  /\ text = <<>>
  /\ rule = 0
  /\ applied = <<>>
  /\ trail = <<>>
  /\ result = <<>>
  /\ df = <<>>
  /\ cleaned_content = <<>>
  /\ total_removed = 0
  /\ avg_reduction = FracNaN
  /\ na_as_text = TRUE

SpecLen == LenInit /\ [][SanNext]_vars

\* C10: no rule lengthens the text, so the returned text is no longer than the argument
C10_NeverLonger ==
  (pc \in {"rules", "returned"} /\ value.kind = "str") =>
    /\ \A j \in 1..(Len(trail) - 1) : Len(trail[j + 1]) <= Len(trail[j])
    /\ Len(text) <= Len(value.s)
    /\ (pc = "returned" => Len(result) <= Len(value.s))

\* a link and an image under every rule: only the link's text is left
C10_Witness ==
  /\ pc = "returned"
  /\ options = AllOn
  /\ value.s = <<"<","a"," ","h","r","e","f","=","\"","u","\"",">","t","<","/","a",">","<","i","m","g"," ","s","r","c","=","\"","x","\"","/",">">>
  /\ result = <<"t">>
  /\ Len(applied) = Len(Rules) - 1

====
